---- MODULE Spec2Model ----
(***************************************************************************)
(* Model of app.py, the Streamlit fitness tracker.                         *)
(*                                                                         *)
(* One step of the model is one execution of the script from top to        *)
(* bottom: the three stores are loaded, at most one form button is         *)
(* handled (daily log, weight check-in, goal), and the progress section    *)
(* is rendered for the selected person.  The calendar day advances         *)
(* between executions.                                                     *)
(*                                                                         *)
(* Units.  Weights are integers in tenths of a kilogram (the weight        *)
(* inputs step by 0.1).  Calories are integers in tenths of a kcal (the    *)
(* stored values are rounded to one decimal).  The "Weight" column of the  *)
(* plotted frame is in units of 1 / (10 * 4 * 7700) kg, in which           *)
(* start_weight + cumulative_deficit * 0.75 / 7700 is an integer; the      *)
(* arithmetic is exact, so floating point rounding is not modelled.        *)
(* The completion fraction is an exact fraction [n, d] with d > 0.         *)
(*                                                                         *)
(* Dates are day numbers.  The stores only hold dates written by           *)
(* date.today().isoformat(); ISO strings, pd.to_datetime of them and day   *)
(* numbers order the same way and correspond one to one, so one            *)
(* representation serves the string columns and the datetime columns.      *)
(* Numbers written to a CSV file and read back are unchanged.              *)
(***************************************************************************)
EXTENDS Integers, Sequences, FiniteSets, TLC

VARIABLES
    today,      \* date.today(), as a day number
    df,         \* data.csv: rows [Date, Person, Net] in file order
    weights,    \* weights.csv: rows [Date, Person, Weight] in file order
    goals,      \* goals.csv: rows [Person, Target] in file order
    person,     \* the "Who are you?" selection of the last execution
    shown,      \* "chart" when the progress section ran, "info" for st.info
    start_weight, \* the anchor of the prediction, in tenths of a kilogram
    plot_df,    \* the long-format frame: [Actual, Predicted], rows [Date, Weight]
    progress,   \* per index of PEOPLE: <<>> (no pie) or <<[start, curr, tgt, pct]>>
    together    \* <<>> (no Together pie) or <<avg>>

vars == <<today, df, weights, goals, person, shown, start_weight, plot_df,
          progress, together>>

-----------------------------------------------------------------------------
(* Bounds of the model *)

MaxDay == 2

MaxWeights == 3

MaxLogs == 3

MaxRows == 4

ScoreMaxDay == 2

ScoreMaxWeights == 2

ScoreMaxLogs == 1

ScoreMaxRows == 3

-----------------------------------------------------------------------------
(* Program constants and markers *)

PEOPLE == <<"Akshat", "Ananya">>

People == {PEOPLE[i] : i \in 1..Len(PEOPLE)}

\* pandas' missing number (NaN); an integer outside every value of the model
NaN == -1000000000

\* pandas' missing date (NaT); day numbers start at 1
NaT == 0

\* 0.75 = EfficiencyNum / EfficiencyDen
EfficiencyNum == 3

EfficiencyDen == 4

EnergyDensity == 7700

\* plot units per tenth of a kilogram
PlotUnit == EfficiencyDen * EnergyDensity

-----------------------------------------------------------------------------
(* Form inputs (small sets inside the ranges the widgets allow) *)

WeightInputs == {770, 800}

TargetInputs == {750, 770, 790}

EatenInputs == {1200, 1800}

SexInputs == {"Male"}

WeightNowInputs == {750}

HeightInputs == {175}

AgeInputs == {24}

WalkMetInputs == {28}

WalkMinsInputs == {0}

WtMetInputs == {35}

WtMinsInputs == {60}

-----------------------------------------------------------------------------
(* Helpers *)

\* 0.80 * (10*w + 6.25*h - 5*age + (5 | -161)), in tenths of a kcal, w in
\* tenths of a kilogram
conservative_bmr(sex, w, h, age) ==
    8 * w + 50 * h - 40 * age + (IF sex = "Male" THEN 40 ELSE -1288)

\* max(0, (met - 1) * w * (mins / 60)), in tenths of a kcal; met and w in
\* tenths.  The input sets keep the quotient exact.
activity_excess(met, w, mins) ==
    LET x == ((met - 10) * w * mins) \div 600
    IN  IF x > 0 THEN x ELSE 0

SetMin(S) == CHOOSE x \in S : \A y \in S : x <= y

SetMax(S) == CHOOSE x \in S : \A y \in S : x >= y

\* frame[frame.Person == p]
PersonRows(rows, p) == SelectSeq(rows, LAMBDA r : r.Person = p)

\* frame[frame.Person != p]
OtherRows(rows, p) == SelectSeq(rows, LAMBDA r : r.Person # p)

Dates(rows) == {rows[i].Date : i \in 1..Len(rows)}

RemoveAt(s, i) == SubSeq(s, 1, i - 1) \o SubSeq(s, i + 1, Len(s))

\* sort_values("Date") with the default kind="quicksort", which is not a
\* stable sort: rows come out in date order, rows of one date in any order
\* (which order depends on numpy's build and on the number of rows).
RECURSIVE SortValues(_)
SortValues(rows) ==
    IF rows = <<>> THEN {<<>>}
    ELSE LET first == SetMin(Dates(rows))
             heads == {i \in 1..Len(rows) : rows[i].Date = first}
         IN  UNION {{<<rows[i]>> \o t : t \in SortValues(RemoveAt(rows, i))} :
                    i \in heads}

-----------------------------------------------------------------------------
(* Progress and prediction: the reconciliation pipeline *)

\* pd.date_range(start_date, end_date, freq="D")
date_range(start_date, end_date) ==
    [i \in 1..(end_date - start_date + 1) |-> start_date + i - 1]

\* the unified daily timeline of the sorted weight and daily-log rows
Timeline(pw, pdaily) ==
    date_range(SetMin(Dates(pw) \cup Dates(pdaily)),
               SetMax(Dates(pw) \cup Dates(pdaily)))

\* timeline.merge(rows[["Date", col]], on="Date", how="left")[col]: a left
\* join, so a date with k > 1 rows yields k rows (in the order of rows), and
\* a date with none yields one row holding NaN
RECURSIVE LeftMerge(_, _, _)
LeftMerge(timeline, rows, col) ==
    IF timeline = <<>> THEN <<>>
    ELSE LET hits == SelectSeq(rows, LAMBDA r : r.Date = Head(timeline))
             here == IF hits = <<>> THEN <<NaN>>
                     ELSE [i \in 1..Len(hits) |-> hits[i][col]]
         IN  here \o LeftMerge(Tail(timeline), rows, col)

\* Series.ffill(): carry the last value seen forward; leading NaN stay
ffill(col) ==
    [i \in 1..Len(col) |->
        LET seen == {j \in 1..i : col[j] # NaN}
        IN  IF seen = {} THEN NaN ELSE col[SetMax(seen)]]

\* .fillna(0)
fillna0(col) == [i \in 1..Len(col) |-> IF col[i] = NaN THEN 0 ELSE col[i]]

\* Series.clip(upper=0)
clip_upper0(col) == [i \in 1..Len(col) |-> IF col[i] > 0 THEN 0 ELSE col[i]]

\* Series.cumsum()
RECURSIVE SumTo(_, _)
SumTo(col, i) == IF i = 0 THEN 0 ELSE SumTo(col, i - 1) + col[i]

cumsum(col) == [i \in 1..Len(col) |-> SumTo(col, i)]

\* actual["Weight"] after the forward fill, in tenths of a kilogram
ActualWeight(timeline, pw) == ffill(LeftMerge(timeline, pw, "Weight"))

\* actual.iloc[0]["Weight"]
StartWeight(actual) == actual[1]

\* daily["Net Calories"].clip(upper=0).cumsum()
CumulativeDeficit(timeline, pdaily) ==
    cumsum(clip_upper0(fillna0(LeftMerge(timeline, pdaily, "Net"))))

\* start_weight + (cumulative_deficit * 0.75) / 7700 for start_weight = w0,
\* in plot units; NaN when start_weight is NaN
PredictedWeight(w0, cumulative_deficit) ==
    [i \in 1..Len(cumulative_deficit) |->
        IF w0 = NaN THEN NaN
        ELSE w0 * PlotUnit + cumulative_deficit[i] * EfficiencyNum]

\* a weight column of the stores, in plot units
ToPlot(col) ==
    [i \in 1..Len(col) |-> IF col[i] = NaN THEN NaN ELSE col[i] * PlotUnit]

\* pd.DataFrame({"Date": timeline["Date"], "Weight": col, ...}): the two
\* series are aligned on the union of their positional indexes; a position
\* missing in one of them holds NaT / NaN
Frame(timeline, col) ==
    [i \in 1..(IF Len(timeline) > Len(col) THEN Len(timeline) ELSE Len(col)) |->
        [Date   |-> IF i <= Len(timeline) THEN timeline[i] ELSE NaT,
         Weight |-> IF i <= Len(col) THEN col[i] ELSE NaN]]

\* plot_df, from the sorted rows of the selected person
PlotDf(pw, pdaily) ==
    LET timeline == Timeline(pw, pdaily)
        actual   == ActualWeight(timeline, pw)
    IN  [Actual    |-> Frame(timeline, ToPlot(actual)),
         Predicted |-> Frame(timeline,
                             PredictedWeight(StartWeight(actual),
                                             CumulativeDeficit(timeline, pdaily)))]

NoPlot == [Actual |-> <<>>, Predicted |-> <<>>]

-----------------------------------------------------------------------------
(* Pie charts *)

Zero == [n |-> 0, d |-> 1]

One == [n |-> 1, d |-> 1]

FracLess(a, b) == a.n * b.d < b.n * a.d

\* Python's min(a, b) and max(a, b): the first argument unless the second
\* is strictly smaller / larger
PyMin(a, b) == IF FracLess(b, a) THEN b ELSE a

PyMax(a, b) == IF FracLess(a, b) THEN b ELSE a

\* the ratio without the clamp to [0, 1]
PctUnclamped(start, curr, tgt) ==
    IF start > tgt THEN [n |-> start - curr, d |-> start - tgt] ELSE One

\* max(0, min(1, (start - curr) / (start - tgt) if start > tgt else 1))
Pct(start, curr, tgt) ==
    PyMax(Zero, PyMin(One, IF start > tgt
                           THEN [n |-> start - curr, d |-> start - tgt]
                           ELSE One))

\* one pass of the loop over PEOPLE for p; sorted is pw_p.sort_values("Date")
Pie(p, w, g, sorted) ==
    IF PersonRows(w, p) = <<>> \/ PersonRows(g, p) = <<>> THEN <<>>
    ELSE LET start == sorted[1].Weight
             curr  == sorted[Len(sorted)].Weight
             tgt   == PersonRows(g, p)[1].Target
         IN  <<[start |-> start, curr |-> curr, tgt |-> tgt,
                pct |-> Pct(start, curr, tgt)]>>

\* progress_vals after the loop: the pct of each person with a pie, in the
\* order of PEOPLE
RECURSIVE ProgressVals(_, _)
ProgressVals(pies, i) ==
    IF i = 0 THEN <<>>
    ELSE ProgressVals(pies, i - 1) \o
         (IF pies[i] = <<>> THEN <<>> ELSE <<pies[i][1].pct>>)

\* sum(progress_vals)
RECURSIVE FracSum(_, _)
FracSum(vals, i) ==
    IF i = 0 THEN Zero
    ELSE LET s == FracSum(vals, i - 1)
         IN  [n |-> s.n * vals[i].d + vals[i].n * s.d, d |-> s.d * vals[i].d]

\* avg = sum(progress_vals) / len(progress_vals), when progress_vals is not empty
Together(pies) ==
    LET vals == ProgressVals(pies, Len(PEOPLE))
        s    == FracSum(vals, Len(vals))
    IN  IF vals = <<>> THEN <<>>
        ELSE <<[n |-> s.n, d |-> s.d * Len(vals)]>>

\* the outcomes of the loop's sort_values for PEOPLE[1..i], one per person
RECURSIVE PieSorts(_, _)
PieSorts(w, i) ==
    IF i = 0 THEN {<<>>}
    ELSE {Append(s, t) : s \in PieSorts(w, i - 1),
                         t \in SortValues(PersonRows(w, PEOPLE[i]))}

-----------------------------------------------------------------------------
(* The progress section, for the selected person p and the stores as the    *)
(* handlers left them                                                       *)

Render(p, d, w, g) ==
    IF /\ PersonRows(w, p) # <<>>
       /\ PersonRows(g, p) # <<>>
       /\ PersonRows(d, p) # <<>>
    THEN \E pw \in SortValues(PersonRows(w, p)),
            pdaily \in SortValues(PersonRows(d, p)),
            sorts \in PieSorts(w, Len(PEOPLE)) :
            LET pies == [i \in 1..Len(PEOPLE) |-> Pie(PEOPLE[i], w, g, sorts[i])]
            IN  /\ shown' = "chart"
                /\ start_weight' = StartWeight(ActualWeight(Timeline(pw, pdaily), pw))
                /\ plot_df' = PlotDf(pw, pdaily)
                /\ progress' = pies
                /\ together' = Together(pies)
    ELSE /\ shown' = "info"
         /\ start_weight' = NaN
         /\ plot_df' = NoPlot
         /\ progress' = [i \in 1..Len(PEOPLE) |-> <<>>]
         /\ together' = <<>>

-----------------------------------------------------------------------------
(* Executions of the script.  B is the record of bounds of a specification. *)

Init ==
    /\ today = 1
    /\ df = <<>>
    /\ weights = <<>>
    /\ goals = <<>>
    /\ person = PEOPLE[1]
    /\ shown = "info"
    /\ start_weight = NaN
    /\ plot_df = NoPlot
    /\ progress = [i \in 1..Len(PEOPLE) |-> <<>>]
    /\ together = <<>>

\* an execution with no button pressed (the selection changed, or a refresh)
Rerun(p) ==
    /\ person' = p
    /\ UNCHANGED <<today, df, weights, goals>>
    /\ Render(p, df, weights, goals)

\* "Save today"
SaveDaily(p, B) ==
    /\ Len(df) < B.logs
    /\ Len(df) + Len(weights) < B.rows
    /\ \E sex \in SexInputs, weight_now \in WeightNowInputs,
          height \in HeightInputs, age \in AgeInputs, eaten \in B.eaten,
          walk_met \in WalkMetInputs, walk_mins \in WalkMinsInputs,
          wt_met \in WtMetInputs, wt_mins \in WtMinsInputs :
          LET bmr    == conservative_bmr(sex, weight_now, height, age)
              active == activity_excess(walk_met, weight_now, walk_mins)
                        + activity_excess(wt_met, weight_now, wt_mins)
              total  == bmr + active
              net    == eaten * 10 - total
          IN  /\ df' = Append(df, [Date |-> today, Person |-> p, Net |-> net])
              /\ person' = p
              /\ UNCHANGED <<today, weights, goals>>
              /\ Render(p, df', weights, goals)

\* "Log weekly weight"
LogWeight(p, B) ==
    /\ Len(weights) < B.weights
    /\ Len(df) + Len(weights) < B.rows
    /\ \E w \in B.weighed[p] :
          /\ weights' = Append(weights, [Date |-> today, Person |-> p, Weight |-> w])
          /\ person' = p
          /\ UNCHANGED <<today, df, goals>>
          /\ Render(p, df, weights', goals)

\* a goal save that appends without dropping the person's earlier rows
SetGoalAppend(g, p, target) == Append(g, [Person |-> p, Target |-> target])

\* goals after "Save goal": the person's rows dropped, the new row appended
SetGoal(g, p, target) ==
    Append(OtherRows(g, p), [Person |-> p, Target |-> target])

\* the handler of "Save goal", with the form holding target
GoalSaved(p, target) ==
    /\ person' = p
    /\ UNCHANGED <<today, df, weights>>
    /\ goals' = SetGoal(goals, p, target)

\* "Save goal" with the form holding target
SaveGoalWith(p, target) ==
    /\ GoalSaved(p, target)
    /\ Render(p, df, weights, goals')

SaveGoal(p, B) == \E target \in B.targets[p] : SaveGoalWith(p, target)

\* midnight passes between two executions
NextDay(B) ==
    /\ today < B.day
    /\ today' = today + 1
    /\ UNCHANGED <<df, weights, goals, person, shown, start_weight, plot_df,
                   progress, together>>

NextB(B) ==
    \/ \E p \in People : Rerun(p)
    \/ \E p \in People : SaveDaily(p, B)
    \/ \E p \in People : LogWeight(p, B)
    \/ \E p \in People : SaveGoal(p, B)
    \/ NextDay(B)

\* the reconciliation pipeline: several rows per store, one goal value
FullBounds ==
    [day |-> MaxDay, weights |-> MaxWeights, logs |-> MaxLogs, rows |-> MaxRows,
     weighed |-> [p \in People |-> WeightInputs], eaten |-> EatenInputs,
     targets |-> [p \in People |-> {790}]]

\* the goal store and the pies: several goal values, one calorie intake
ScoreBounds ==
    [day |-> ScoreMaxDay, weights |-> ScoreMaxWeights, logs |-> ScoreMaxLogs,
     rows |-> ScoreMaxRows,
     weighed |-> [p \in People |-> IF p = "Akshat" THEN WeightInputs ELSE {600}],
     eaten |-> {1200},
     targets |-> [p \in People |-> IF p = "Akshat" THEN TargetInputs ELSE {550}]]

Next == NextB(FullBounds)

Spec == Init /\ [][Next]_vars

NextScore == NextB(ScoreBounds)

SpecScore == Init /\ [][NextScore]_vars

-----------------------------------------------------------------------------
(* Vocabulary of the properties: the selected person's records, in file     *)
(* order, and the rows of the plotted frame                                 *)

Pw == PersonRows(weights, person)

Pdaily == PersonRows(df, person)

Pg == PersonRows(goals, person)

Idx == 1..Len(PEOPLE)

FirstDate == SetMin(Dates(Pw) \cup Dates(Pdaily))

LastDate == SetMax(Dates(Pw) \cup Dates(Pdaily))

OnDate(rows, d) == SelectSeq(rows, LAMBDA r : r.Date = d)

RowSet(rows) == {rows[i] : i \in 1..Len(rows)}

DateCol(series) == [i \in 1..Len(series) |-> series[i].Date]

Min0(x) == IF x < 0 THEN x ELSE 0

FracPlus(a, b) == [n |-> a.n * b.d + b.n * a.d, d |-> a.d * b.d]

\* W0 + (c * 0.75) / 7700 in plot units, for W0 in tenths of a kilogram
Anchored(w0, c) == IF w0 = NaN THEN NaN ELSE w0 * PlotUnit + c * EfficiencyNum

-----------------------------------------------------------------------------
(* C1 *)

\* C1: when the reconciliation runs for the selected person (weights, daily
\* logs and, as the script demands, a goal are present), the Actual rows and
\* the Predicted rows are exactly the consecutive days from the earliest to
\* the latest date of the two series, one row per day, none missing and none
\* repeated, also with several entries on one date.
C1_OnePointPerDay ==
    (Pw # <<>> /\ Pdaily # <<>> /\ Pg # <<>>) =>
        /\ DateCol(plot_df.Actual) = date_range(FirstDate, LastDate)
        /\ DateCol(plot_df.Predicted) = date_range(FirstDate, LastDate)

-----------------------------------------------------------------------------
(* C2 *)

\* C2: the anchor of the prediction is the first resolved Actual value, and
\* the Predicted series has a value at every Timeline date.
C2_AnchorFirstResolved ==
    shown = "chart" =>
        /\ start_weight # NaN
        /\ \E i \in 1..Len(plot_df.Actual) :
              /\ plot_df.Actual[i].Weight # NaN
              /\ \A j \in 1..(i - 1) : plot_df.Actual[j].Weight = NaN
              /\ plot_df.Actual[i].Weight = start_weight * PlotUnit
        /\ \A i \in 1..Len(plot_df.Predicted) :
              plot_df.Predicted[i].Date # NaT => plot_df.Predicted[i].Weight # NaN

-----------------------------------------------------------------------------
(* C3 *)

\* the weight entries of the selected person dated on or before d
OnOrBefore(d) == {r \in RowSet(Pw) : r.Date <= d}

\* C3: at every Timeline date d the Actual value is the weight of an entry of
\* the most recent weight date on or before d, and is unresolved when no
\* entry is dated on or before d; a resolved date is followed by resolved
\* dates only.
C3_ForwardFill ==
    shown = "chart" =>
        /\ \A i \in 1..Len(plot_df.Actual) :
              plot_df.Actual[i].Date # NaT =>
                 LET d == plot_df.Actual[i].Date
                 IN  IF OnOrBefore(d) = {}
                     THEN plot_df.Actual[i].Weight = NaN
                     ELSE \E r \in OnOrBefore(d) :
                             /\ \A q \in OnOrBefore(d) : q.Date <= r.Date
                             /\ plot_df.Actual[i].Weight = r.Weight * PlotUnit
        /\ \A i, j \in 1..Len(plot_df.Actual) :
              (/\ i < j
               /\ plot_df.Actual[j].Date # NaT
               /\ plot_df.Actual[i].Weight # NaN) => plot_df.Actual[j].Weight # NaN

-----------------------------------------------------------------------------
(* C4 *)

\* how a day with several log entries is read: its first entry, its last
\* entry, every entry clipped and added, or the entries added and then clipped
Readings == {"first", "last", "each", "net"}

RECURSIVE NetSum(_, _)
NetSum(rows, k) == IF k = 0 THEN 0 ELSE NetSum(rows, k - 1) + rows[k].Net

RECURSIVE ClippedSum(_, _)
ClippedSum(rows, k) ==
    IF k = 0 THEN 0 ELSE ClippedSum(rows, k - 1) + Min0(rows[k].Net)

\* min(net_calories, 0) of day d; 0 for a day with no log
DayDeficit(d, reading) ==
    LET rows == OnDate(Pdaily, d)
    IN  IF rows = <<>> THEN 0
        ELSE IF reading = "first" THEN Min0(rows[1].Net)
        ELSE IF reading = "last" THEN Min0(rows[Len(rows)].Net)
        ELSE IF reading = "each" THEN ClippedSum(rows, Len(rows))
        ELSE Min0(NetSum(rows, Len(rows)))

\* cum_deficit[d]: the clipped days from the first Timeline date up to d
RECURSIVE DeficitUpTo(_, _)
DeficitUpTo(d, reading) ==
    IF d < FirstDate THEN 0
    ELSE DeficitUpTo(d - 1, reading) + DayDeficit(d, reading)

\* C4: at every Timeline date d the predicted weight is
\* W0 + cum_deficit[d] * 0.75 / 7700, cum_deficit[d] being the sum of
\* min(net_calories, 0) over the Timeline dates up to d, a day with no log
\* counting 0 (W0 is the anchor the script used; any one reading of a day
\* with several entries is accepted).
C4_PredictedFormula ==
    shown = "chart" =>
        \E reading \in Readings :
            \A i \in 1..Len(plot_df.Predicted) :
                plot_df.Predicted[i].Date # NaT =>
                    plot_df.Predicted[i].Weight =
                        Anchored(start_weight,
                                 DeficitUpTo(plot_df.Predicted[i].Date, reading))

-----------------------------------------------------------------------------
(* C5 *)

\* day d has no log entry, or only surplus entries
NoDeficitOn(d) == \A r \in RowSet(OnDate(Pdaily, d)) : r.Net > 0

\* C5: the predicted weight of a Timeline date is at most that of the
\* previous Timeline date, and equal to it on a day with a surplus or with no
\* log (an undefined prediction is taken to equal an undefined prediction).
C5_NeverUpward ==
    shown = "chart" =>
        \A i \in 2..Len(plot_df.Predicted) :
            plot_df.Predicted[i].Date # NaT =>
                /\ plot_df.Predicted[i].Weight <= plot_df.Predicted[i - 1].Weight
                /\ NoDeficitOn(plot_df.Predicted[i].Date) =>
                      plot_df.Predicted[i].Weight = plot_df.Predicted[i - 1].Weight

-----------------------------------------------------------------------------
(* C6 *)

\* C6: a computed score of a person is taken from start = the weight of an
\* entry of the person's earliest weight date, current = the weight of an
\* entry of the latest weight date and the person's goal; it is
\* (start - current) / (start - target) cut to [0, 1] when start > target,
\* and 1 otherwise; so it lies in [0, 1], is 1 when current = target and is
\* 0 when current = start with target < start.
C6_CompletionFraction ==
    \A i \in Idx :
        progress[i] # <<>> =>
            LET r    == progress[i][1]
                rows == PersonRows(weights, PEOPLE[i])
                g    == PersonRows(goals, PEOPLE[i])
            IN  /\ rows # <<>> /\ g # <<>>
                /\ \E e \in RowSet(rows) :
                      e.Date = SetMin(Dates(rows)) /\ e.Weight = r.start
                /\ \E e \in RowSet(rows) :
                      e.Date = SetMax(Dates(rows)) /\ e.Weight = r.curr
                /\ \E e \in RowSet(g) : e.Target = r.tgt
                /\ r.pct.d > 0
                /\ 0 <= r.pct.n /\ r.pct.n <= r.pct.d
                /\ IF r.start > r.tgt
                   THEN IF r.curr >= r.start THEN r.pct.n = 0
                        ELSE IF r.curr <= r.tgt THEN r.pct.n = r.pct.d
                        ELSE r.pct.n * (r.start - r.tgt) = r.pct.d * (r.start - r.curr)
                   ELSE r.pct.n = r.pct.d
                /\ r.curr = r.tgt => r.pct.n = r.pct.d
                /\ (r.curr = r.start /\ r.tgt < r.start) => r.pct.n = 0

\* a score strictly between 0 and 1 was computed: target < current < start
C6_Witness ==
    \E i \in Idx :
        /\ progress[i] # <<>>
        /\ progress[i][1].tgt < progress[i][1].curr
        /\ progress[i][1].curr < progress[i][1].start
        /\ 0 < progress[i][1].pct.n
        /\ progress[i][1].pct.n < progress[i][1].pct.d

-----------------------------------------------------------------------------
(* C7 *)

RECURSIVE ScoreSum(_)
ScoreSum(i) ==
    IF i = 0 THEN Zero
    ELSE IF progress[i] = <<>> THEN ScoreSum(i - 1)
    ELSE FracPlus(ScoreSum(i - 1), progress[i][1].pct)

Scored == {i \in Idx : progress[i] # <<>>}

\* C7: a person has a score exactly when the person has a weight entry and a
\* goal, whoever is selected and whatever the daily logs hold; the Together
\* score is the mean of the scores there are, and is missing only when there
\* is none.
C7_ScoreDefined ==
    /\ \A i \in Idx :
          progress[i] # <<>> <=>
             (/\ PersonRows(weights, PEOPLE[i]) # <<>>
              /\ PersonRows(goals, PEOPLE[i]) # <<>>)
    /\ together = <<>> <=> Scored = {}
    /\ together # <<>> =>
          together[1].n * ScoreSum(Len(PEOPLE)).d * Cardinality(Scored)
             = ScoreSum(Len(PEOPLE)).n * together[1].d

-----------------------------------------------------------------------------
(* C8 *)

\* C8: the Actual/Predicted series are produced exactly when the selected
\* person's weight series and daily-log series are both non-empty; otherwise
\* the advisory is shown and nothing is produced.
C8_Gate ==
    /\ shown = "chart" <=> (Pw # <<>> /\ Pdaily # <<>>)
    /\ shown = "chart" => (plot_df.Actual # <<>> /\ plot_df.Predicted # <<>>)
    /\ shown = "info" => plot_df = NoPlot

-----------------------------------------------------------------------------
(* C9 *)

AtMostOneGoal == \A p \in People : Len(PersonRows(goals, p)) <= 1

\* the goal saves of the executions: who saves, and the target in the form
GoalSaves ==
    UNION {{<<p, t>> : t \in ScoreBounds.targets[p]} : p \in People}

\* C9: every execution leaves the goal store with at most one goal per
\* person; when the goal handler ran for p with target t, p's stored goal is t
\* and the others' goals are as they were; an execution in which it did not
\* run leaves the store unchanged; and the target of a computed score is the
\* person's stored goal.
C9_GoalUpsert ==
    [][/\ AtMostOneGoal'
       /\ LET saves == {s \in GoalSaves : GoalSaved(s[1], s[2])}
          IN  /\ \A s \in saves :
                    /\ PersonRows(goals', s[1])
                          = <<[Person |-> s[1], Target |-> s[2]]>>
                    /\ \A q \in People \ {s[1]} :
                          PersonRows(goals', q) = PersonRows(goals, q)
              /\ saves = {} => goals' = goals
       /\ \A i \in Idx :
             progress'[i] # <<>> =>
                PersonRows(goals', PEOPLE[i])
                   = <<[Person |-> PEOPLE[i], Target |-> progress'[i][1].tgt]>>
      ]_vars

\* both people hold a goal and both scores were computed from them
C9_Witness ==
    /\ \A p \in People : Len(PersonRows(goals, p)) = 1
    /\ shown = "chart"
    /\ \A i \in Idx : progress[i] # <<>>

-----------------------------------------------------------------------------
(* C10 *)

\* C10: of several weight entries of one date the last written wins: the
\* Actual value on that date, and on the dates after it up to the next
\* entry, is its weight, and when the date is the person's latest weight
\* date the score's current weight is its weight.
C10_LastWriteWins ==
    shown = "chart" =>
        /\ \A d \in Dates(Pw) :
              Len(OnDate(Pw, d)) > 1 =>
                 \A i \in 1..Len(plot_df.Actual) :
                    (/\ plot_df.Actual[i].Date # NaT
                     /\ plot_df.Actual[i].Date >= d
                     /\ \A r \in RowSet(Pw) :
                           ~(d < r.Date /\ r.Date <= plot_df.Actual[i].Date))
                    => plot_df.Actual[i].Weight
                          = OnDate(Pw, d)[Len(OnDate(Pw, d))].Weight * PlotUnit
        /\ \A i \in Idx :
              LET rows   == PersonRows(weights, PEOPLE[i])
                  latest == OnDate(rows, SetMax(Dates(rows)))
              IN  (progress[i] # <<>> /\ Len(latest) > 1) =>
                     progress[i][1].curr = latest[Len(latest)].Weight

-----------------------------------------------------------------------------
(* What the script does where the statements above fail: the gate as coded, *)
(* and the pipeline when no date holds two entries of the selected person   *)

OneWeightPerDate == \A d \in Dates(Pw) : Len(OnDate(Pw, d)) = 1

OneLogPerDate == \A d \in Dates(Pdaily) : Len(OnDate(Pdaily, d)) = 1

\* the chart is shown exactly when the selected person has weights, logs and
\* a goal
Gate_AsCoded ==
    shown = "chart" <=> (Pw # <<>> /\ Pdaily # <<>> /\ Pg # <<>>)

\* a person has a score exactly when the chart is shown and the person has a
\* weight entry and a goal
Scores_AsCoded ==
    \A i \in Idx :
        progress[i] # <<>> <=>
           (/\ shown = "chart"
            /\ PersonRows(weights, PEOPLE[i]) # <<>>
            /\ PersonRows(goals, PEOPLE[i]) # <<>>)

\* with one entry per date in both series there is one row per Timeline day
Rows_OneEntryPerDate ==
    (OneWeightPerDate /\ OneLogPerDate) => C1_OnePointPerDay

\* the anchor is the first resolved value when the weights do not start after
\* the logs
Anchor_WeightsStartFirst ==
    (shown = "chart" /\ SetMin(Dates(Pw)) <= SetMin(Dates(Pdaily)))
        => C2_AnchorFirstResolved

\* with one weight entry per date the Actual series is the forward fill
Actual_OneEntryPerDate == OneWeightPerDate => C3_ForwardFill

\* with one log per date the Predicted series follows the formula and is flat
\* on surplus days and days without a log
Predicted_OneEntryPerDate ==
    OneLogPerDate => (C4_PredictedFormula /\ C5_NeverUpward)

\* in row order the Predicted series never rises
Predicted_RowsNeverRise ==
    \A i \in 2..Len(plot_df.Predicted) :
        plot_df.Predicted[i].Weight <= plot_df.Predicted[i - 1].Weight

====
